---- MODULE Spec2Model ----
(***************************************************************************)
(* Three revisions of one small educational backend:                       *)
(*   "mem"  src/main.py                    process-wide dictionaries       *)
(*   "sql"  src/backend/main.py            sqlite3, direct statements      *)
(*   "orm"  src/backend/executor_simple.py SQLAlchemy session              *)
(* A behaviour runs one revision (variant). A handler is one step where it  *)
(* touches the store once, and one step per access where it reads or       *)
(* writes the store several times with no lock or transaction around them; *)
(* sessions holds what a request in flight has done so far, and the        *)
(* logical clock now counts the requests answered.                         *)
(***************************************************************************)
EXTENDS Integers, Sequences, FiniteSets, TLC

\* ------------------------------------------------------------------ bounds
\* Number of requests received in one behaviour.
MaxTime == 3
\* requests of a run of SpecStats beyond MaxTime
ExtraSteps == 4

\* ------------------------------------------------------------ input domains
Variants == {"mem", "sql", "orm"}
Usernames == {"alice", "bob"}
Emails == {"a@x", "b@x"}
Passwords == {"pw1", "pw2"}
\* Python None
None == "None"

VARIABLES
  variant,          \* which revision runs
  now,              \* logical clock: requests answered so far
  users_db,         \* mem: dict username -> user record
  progress_db,      \* mem: dict key -> progress record
  progress_keys,    \* mem: the keys of progress_db in the order the dict holds them
  users,            \* sql / orm: rows of table users
  courses,          \* sql: rows of table courses
  articles,         \* sql: rows of table articles
  quizzes,          \* sql: rows of table quizzes
  user_progress,    \* sql: rows of table user_progress
  user_progress_seq, \* sql: sqlite_sequence of user_progress (last AUTOINCREMENT id)
  lessons,          \* orm: rows of Lesson
  challenges,       \* orm: rows of Challenge
  orm_progress,     \* orm: rows of UserProgress
  orm_submissions,  \* orm: rows of UserSubmission
  sessions,         \* per worker thread: the request in flight and what it has read or queued
  registered,       \* history: <<username, password>> of every successful register
  resp              \* the last request and its response

vars == <<variant, now, users_db, progress_db, progress_keys, users, courses, articles, quizzes,
          user_progress, user_progress_seq, lessons, challenges, orm_progress, orm_submissions,
          sessions, registered, resp>>

memVars == <<users_db, progress_db, progress_keys>>
sqlVars == <<courses, articles, quizzes, user_progress, user_progress_seq>>
ormVars == <<lessons, challenges, orm_progress, orm_submissions, sessions>>

\* ----------------------------------------------------------------- helpers
EmptyDict == [k \in {} |-> None]

\* faulty variant: d.setdefault(k, v), which keeps an entry that is present
DictPut_IfAbsent(d, k, v) ==
  [x \in (DOMAIN d) \cup {k} |-> IF x \in DOMAIN d THEN d[x] ELSE v]

\* d[k] = v of a Python dict
DictPut(d, k, v) == [x \in (DOMAIN d) \cup {k} |-> IF x = k THEN v ELSE d[x]]

Range(s) == {s[i] : i \in DOMAIN s}

\* a response: what was called, with what, the HTTP status and the body
Response(op, args, status, body) ==
  [op |-> op, args |-> args, status |-> status, body |-> body]

\* HTTPException(status_code, detail)
HTTPException(op, args, status, detail) ==
  Response(op, args, status, [detail |-> detail])

\* the worker threads that run the `def` handlers
SessionIds == {"r1", "r2"}
NoSession == [status |-> 0]

\* requests received and not answered yet
InFlight == Cardinality({s \in SessionIds : sessions[s] # NoSession})

\* worker s is free and takes the next request
Starts(s) == sessions[s] = NoSession /\ now + InFlight < MaxTime

\* ======================================================== mem: src/main.py
\* identifiers of the progress endpoint are free strings: sequences of characters
MemUserIds == {<<"a">>, <<"a", "_", "b">>}
MemLessonIds == {<<"c">>, <<"b", "_", "c">>}
ClientTimes == {"t1", "t2"}

\* the static lesson list (id, title, order)
LESSONS ==
  << [id |-> "1", title |-> "Introduction to Python", order |-> 1],
     [id |-> "2", title |-> "Conditionals and Loops", order |-> 2],
     [id |-> "3", title |-> "Functions and Variables", order |-> 3],
     [id |-> "4", title |-> "Lists and Dictionaries", order |-> 4] >>

\* datetime.isoformat()
isoformat(t) == <<"iso", t>>

\* faulty variant: register without the membership test
MemUsernameTaken_NoCheck(db, username) == FALSE

\* user.username in users_db
MemUsernameTaken(db, username) == username \in DOMAIN db

\* register up to its membership test (lines 143-145); a call that passes
\* stays open in sessions[s] until it has read the clock and stored the user
RegisterCheck(s, username, email, password) ==
  LET args == [username |-> username, email |-> email, password |-> password] IN
  /\ variant = "mem"
  /\ Starts(s)
  /\ IF MemUsernameTaken(users_db, username)
     THEN /\ resp' = HTTPException("register", args, 400, "Username already exists")
          /\ now' = now + 1
          /\ UNCHANGED sessions
     ELSE /\ sessions' = [sessions EXCEPT ![s] =
                            [status |-> 200, op |-> "register", args |-> args]]
          /\ UNCHANGED <<resp, now>>
  /\ UNCHANGED <<variant, memVars, users, sqlVars, lessons, challenges,
                 orm_progress, orm_submissions, registered>>

\* the dict display of lines 146-151 is evaluated before it is stored:
\* datetime.now() of line 150 reads the clock
RegisterNow(s) ==
  LET work == sessions[s] IN
  /\ variant = "mem"
  /\ work # NoSession
  /\ work.op = "register"
  /\ "created_at" \notin DOMAIN work
  /\ sessions' = [sessions EXCEPT ![s] = work @@ [created_at |-> isoformat(now)]]
  /\ UNCHANGED <<variant, now, memVars, users, sqlVars, lessons, challenges,
                 orm_progress, orm_submissions, registered, resp>>

\* the assignment users_db[user.username] = ... of line 146 and the return
\* of line 152
RegisterInsert(s) ==
  LET work == sessions[s] IN
  /\ variant = "mem"
  /\ work # NoSession
  /\ work.op = "register"
  /\ "created_at" \in DOMAIN work
  /\ users_db' = DictPut(users_db, work.args.username,
                         [username |-> work.args.username, email |-> work.args.email,
                          password |-> work.args.password, created_at |-> work.created_at])
  /\ registered' = registered \cup {<<work.args.username, work.args.password>>}
  /\ resp' = Response("register", work.args, 200,
                [message |-> "User registered successfully",
                 username |-> work.args.username])
  /\ now' = now + 1
  /\ sessions' = [sessions EXCEPT ![s] = NoSession]
  /\ UNCHANGED <<variant, progress_db, progress_keys, users, sqlVars, lessons,
                 challenges, orm_progress, orm_submissions>>

\* not (not user or user["password"] != credentials.password)
MemCredentialsOk(db, username, password) ==
  /\ username \in DOMAIN db
  /\ db[username].password = password

\* one read of the store: users_db.get(credentials.username)
MemLogin(s, username, password) ==
  LET args == [username |-> username, password |-> password] IN
  /\ variant = "mem"
  /\ Starts(s)
  /\ resp' = IF MemCredentialsOk(users_db, username, password)
             THEN Response("login", args, 200,
                    [message |-> "Login successful",
                     user |-> [username |-> users_db[username].username,
                               email |-> users_db[username].email]])
             ELSE HTTPException("login", args, 401, "Invalid credentials")
  /\ now' = now + 1
  /\ UNCHANGED <<variant, memVars, users, sqlVars, ormVars, registered>>

\* f"{progress.user_id}_{progress.lesson_id}"
ProgressKey(user_id, lesson_id) == user_id \o <<"_">> \o lesson_id

\* save_progress up to the assignment progress_db[key] = {...} (lines 165-172)
SaveProgressPut(s, user_id, lesson_id, completed, timestamp) ==
  LET args == [user_id |-> user_id, lesson_id |-> lesson_id,
               completed |-> completed, timestamp |-> timestamp]
      key == ProgressKey(user_id, lesson_id)
      row == [user_id |-> user_id, lesson_id |-> lesson_id,
              completed |-> completed, timestamp |-> isoformat(timestamp)] IN
  /\ variant = "mem"
  /\ Starts(s)
  /\ progress_db' = DictPut(progress_db, key, row)
  /\ progress_keys' = IF key \in DOMAIN progress_db THEN progress_keys
                      ELSE Append(progress_keys, key)
  /\ sessions' = [sessions EXCEPT ![s] =
                    [status |-> 200, op |-> "save_progress", args |-> args, key |-> key]]
  /\ UNCHANGED <<variant, now, users_db, users, sqlVars, lessons, challenges,
                 orm_progress, orm_submissions, registered, resp>>

\* the return of save_progress (line 173), which reads progress_db[key] again
SaveProgressReturn(s) ==
  LET work == sessions[s] IN
  /\ variant = "mem"
  /\ work # NoSession
  /\ work.op = "save_progress"
  /\ resp' = Response("save_progress", work.args, 200,
                [message |-> "Progress saved", progress |-> progress_db[work.key]])
  /\ now' = now + 1
  /\ sessions' = [sessions EXCEPT ![s] = NoSession]
  /\ UNCHANGED <<variant, memVars, users, sqlVars, lessons, challenges,
                 orm_progress, orm_submissions, registered>>

MemGetLessons(s) ==
  /\ variant = "mem"
  /\ Starts(s)
  /\ resp' = Response("get_lessons", None, 200, LESSONS)
  /\ now' = now + 1
  /\ UNCHANGED <<variant, memVars, users, sqlVars, ormVars, registered>>

\* the handlers on one worker: a request is answered before the next starts
MemNext ==
  \/ \E u \in Usernames, e \in Emails, p \in Passwords : RegisterCheck("r1", u, e, p)
  \/ RegisterNow("r1")
  \/ RegisterInsert("r1")
  \/ \E u \in Usernames, p \in Passwords : MemLogin("r1", u, p)
  \/ \E u \in MemUserIds, l \in MemLessonIds, c \in BOOLEAN, t \in ClientTimes :
        SaveProgressPut("r1", u, l, c, t)
  \/ SaveProgressReturn("r1")
  \/ MemGetLessons("r1")

\* ================================================ sql: src/backend/main.py
\* user_id and ids of the path / query string
UserIds == {1, 2}
QuizIds == {1, 3, 9}
ArticleIds == {1, 2}
Scores == {0, 100}
\* level query parameter; "" stands for an absent or empty one
LevelArgs == {"", "beginner", "intermediate", "advanced"}
\* answers are strings: sequences of characters
Answers == {<< >>, <<"b">>, <<"B">>, <<"c">>}

\* the next id of a table whose rows are only ever appended
NextId(rows) == Len(rows) + 1

\* hashlib.sha256(password.encode()).hexdigest()
hash_password(password) == <<"sha256", password>>

\* sqlite3 stores a Python bool as an integer
SqlBool(b) == IF b THEN 1 ELSE 0

\* str.upper(), one character
UpperChar(c) ==
  CASE c = "a" -> "A" [] c = "b" -> "B" [] c = "c" -> "C" [] c = "d" -> "D"
    [] OTHER -> c

\* str.upper()
upper(str) == [i \in DOMAIN str |-> UpperChar(str[i])]

\* username TEXT UNIQUE, email TEXT UNIQUE: the INSERT raises IntegrityError
UsersIntegrityError(rows, username, email) ==
  \E i \in DOMAIN rows : rows[i].username = username \/ rows[i].email = email

SqlRegister(s, username, email, password) ==
  LET args == [username |-> username, email |-> email, password |-> password]
      user_id == NextId(users) IN
  /\ variant = "sql"
  /\ Starts(s)
  /\ IF UsersIntegrityError(users, username, email)
     THEN /\ resp' = HTTPException("register", args, 400, "Username or email already exists")
          /\ UNCHANGED <<users, registered>>
     ELSE /\ users' = Append(users,
                        [id |-> user_id, username |-> username, email |-> email,
                         password_hash |-> hash_password(password),
                         total_points |-> 0, created_at |-> now])
          /\ registered' = registered \cup {<<username, password>>}
          /\ resp' = Response("register", args, 200,
                        [message |-> "User registered successfully",
                         user |-> [id |-> user_id, username |-> username, email |-> email]])
  /\ now' = now + 1
  /\ UNCHANGED <<variant, memVars, sqlVars, ormVars>>

\* faulty variant: the WHERE clause without the password_hash test
SqlLoginRows_AnyPassword(rows, username, password_hash) ==
  SelectSeq(rows, LAMBDA r : r.username = username)

\* SELECT ... FROM users WHERE username = ? AND password_hash = ?
SqlLoginRows(rows, username, password_hash) ==
  SelectSeq(rows, LAMBDA r : r.username = username /\ r.password_hash = password_hash)

SqlLogin(s, username, password) ==
  LET args == [username |-> username, password |-> password]
      found == SqlLoginRows(users, username, hash_password(password)) IN
  /\ variant = "sql"
  /\ Starts(s)
  /\ resp' = IF found = << >>
             THEN HTTPException("login", args, 401, "Invalid credentials")
             ELSE Response("login", args, 200,
                    [message |-> "Login successful",
                     user |-> [id |-> found[1].id, username |-> found[1].username,
                               email |-> found[1].email,
                               total_points |-> found[1].total_points]])
  /\ now' = now + 1
  /\ UNCHANGED <<variant, memVars, users, sqlVars, ormVars, registered>>

\* comparison of the TEXT values of courses.level under the BINARY collation
LevelRank(level) ==
  CASE level = "advanced" -> 1 [] level = "beginner" -> 2
    [] level = "intermediate" -> 3 [] OTHER -> 4

\* ORDER BY order_num
ByOrderNum(a, b) == a.order_num < b.order_num

\* ORDER BY level, order_num
ByLevelThenOrderNum(a, b) ==
  \/ LevelRank(a.level) < LevelRank(b.level)
  \/ LevelRank(a.level) = LevelRank(b.level) /\ a.order_num < b.order_num

\* the rows get_courses fetches
CoursesQuery(rows, level) ==
  IF level # ""
  THEN SortSeq(SelectSeq(rows, LAMBDA r : r.level = level), ByOrderNum)
  ELSE SortSeq(rows, ByLevelThenOrderNum)

get_courses(s, level) ==
  /\ variant = "sql"
  /\ Starts(s)
  /\ resp' = Response("get_courses", [level |-> level], 200, CoursesQuery(courses, level))
  /\ now' = now + 1
  /\ UNCHANGED <<variant, memVars, users, sqlVars, ormVars, registered>>

\* the static rows of seed_data, ids as AUTOINCREMENT assigns them
SeedCourses ==
  << [id |-> 1, title |-> "Python Basics", level |-> "beginner", order_num |-> 1],
     [id |-> 2, title |-> "Data Types & Variables", level |-> "beginner", order_num |-> 2],
     [id |-> 3, title |-> "Control Flow", level |-> "intermediate", order_num |-> 3],
     [id |-> 4, title |-> "Functions", level |-> "intermediate", order_num |-> 4],
     [id |-> 5, title |-> "OOP Concepts", level |-> "advanced", order_num |-> 5] >>

SeedArticles ==
  << [id |-> 1, course_id |-> 1, title |-> "Introduction to Python", order_num |-> 1],
     [id |-> 2, course_id |-> 1, title |-> "Installing Python", order_num |-> 2],
     [id |-> 3, course_id |-> 2, title |-> "Variables in Python", order_num |-> 1] >>

SeedQuizzes ==
  << [id |-> 1, article_id |-> 1, correct_answer |-> <<"B">>, points |-> 10],
     [id |-> 2, article_id |-> 1, correct_answer |-> <<"B">>, points |-> 10],
     [id |-> 3, article_id |-> 3, correct_answer |-> <<"C">>, points |-> 10],
     [id |-> 4, article_id |-> 3, correct_answer |-> <<"B">>, points |-> 10] >>

\* executemany INSERT: append the rows, each with the next id
InsertAll(table, rows) ==
  table \o [i \in DOMAIN rows |-> [rows[i] EXCEPT !.id = Len(table) + i]]

\* faulty variant: seed_data without the COUNT(*) test
DataExists_Never(rows) == FALSE

\* SELECT COUNT(*) FROM courses ... > 0
DataExists(rows) == Len(rows) > 0

\* seed_data up to its COUNT(*) test (lines 381-388), an autocommit SELECT
\* that keeps no lock
SeedCheck(s) ==
  /\ variant = "sql"
  /\ Starts(s)
  /\ IF DataExists(courses)
     THEN /\ resp' = Response("seed_data", None, 200, [message |-> "Data already exists"])
          /\ now' = now + 1
          /\ UNCHANGED sessions
     ELSE /\ sessions' = [sessions EXCEPT ![s] = [status |-> 200, op |-> "seed_data"]]
          /\ UNCHANGED <<resp, now>>
  /\ UNCHANGED <<variant, memVars, users, sqlVars, lessons, challenges,
                 orm_progress, orm_submissions, registered>>

\* the three executemany INSERTs of seed_data and their commit (lines 390-480),
\* one write transaction
SeedInsert(s) ==
  /\ variant = "sql"
  /\ sessions[s] # NoSession
  /\ sessions[s].op = "seed_data"
  /\ courses' = InsertAll(courses, SeedCourses)
  /\ articles' = InsertAll(articles, SeedArticles)
  /\ quizzes' = InsertAll(quizzes, SeedQuizzes)
  /\ resp' = Response("seed_data", None, 200,
                [message |-> "Sample data inserted successfully!"])
  /\ now' = now + 1
  /\ sessions' = [sessions EXCEPT ![s] = NoSession]
  /\ UNCHANGED <<variant, memVars, users, user_progress, user_progress_seq,
                 lessons, challenges, orm_progress, orm_submissions, registered>>

\* faulty variant: the submitted answer compared without upper()
IsCorrect_NoUpper(answer, correct_answer) == answer = upper(correct_answer)

\* submission.answer.upper() == quiz["correct_answer"].upper()
IsCorrect(answer, correct_answer) == upper(answer) = upper(correct_answer)

\* UPDATE users SET total_points = total_points + ? WHERE id = ?
AddPoints(rows, user_id, points) ==
  [i \in DOMAIN rows |->
     IF rows[i].id = user_id
     THEN [rows[i] EXCEPT !.total_points = @ + points]
     ELSE rows[i]]

\* the SELECT reads a quizzes row, which no handler changes once inserted;
\* the one write is the single UPDATE ... total_points = total_points + ?
submit_quiz(s, user_id, quiz_id, answer) ==
  LET args == [user_id |-> user_id, quiz_id |-> quiz_id, answer |-> answer]
      found == SelectSeq(quizzes, LAMBDA q : q.id = quiz_id) IN
  /\ variant = "sql"
  /\ Starts(s)
  /\ IF found = << >>
     THEN /\ resp' = HTTPException("submit_quiz", args, 404, "Quiz not found")
          /\ UNCHANGED users
     ELSE LET quiz == found[1]
              is_correct == IsCorrect(answer, quiz.correct_answer)
              points_earned == IF is_correct THEN quiz.points ELSE 0 IN
          /\ users' = IF is_correct THEN AddPoints(users, user_id, points_earned) ELSE users
          /\ resp' = Response("submit_quiz", args, 200,
                        [correct |-> is_correct, points_earned |-> points_earned,
                         correct_answer |-> IF ~is_correct THEN quiz.correct_answer ELSE None])
  /\ now' = now + 1
  /\ UNCHANGED <<variant, memVars, sqlVars, ormVars, registered>>

\* INSERT INTO user_progress ... ON CONFLICT(user_id, article_id) DO UPDATE SET ...
\* under UNIQUE(user_id, article_id); seq is the table's sqlite_sequence, which
\* the statement advances whether it inserts or updates
UpsertProgress(rows, seq, user_id, article_id, completed, score, at) ==
  IF \E i \in DOMAIN rows : rows[i].user_id = user_id /\ rows[i].article_id = article_id
  THEN [i \in DOMAIN rows |->
          IF rows[i].user_id = user_id /\ rows[i].article_id = article_id
          THEN [rows[i] EXCEPT !.completed = SqlBool(completed), !.score = score,
                               !.completed_at = at]
          ELSE rows[i]]
  ELSE Append(rows, [id |-> seq + 1, user_id |-> user_id, article_id |-> article_id,
                     completed |-> SqlBool(completed), score |-> score,
                     completed_at |-> at])

\* DATE(completed_at): the calendar day of a stamp, stamps counted in seconds
DATE(t) == t \div 86400

\* seconds between the latest stored stamp and a request that writes: the
\* same second, the next second, a day later
Elapsed == {0, 1, 86400}
SameDay == {0, 1}

\* CURRENT_TIMESTAMP of a request that comes elapsed seconds after the latest
\* stored stamp; the first stamp is second 0
CURRENT_TIMESTAMP(elapsed) ==
  LET Latest(stamps) == CHOOSE t \in stamps : \A x \in stamps : x <= t IN
  IF user_progress = << >> THEN 0
  ELSE Latest({user_progress[i].completed_at : i \in DOMAIN user_progress}) + elapsed

update_progress(s, user_id, article_id, completed, score, elapsed) ==
  LET args == [user_id |-> user_id, article_id |-> article_id,
               completed |-> completed, score |-> score] IN
  /\ variant = "sql"
  /\ Starts(s)
  /\ user_progress' = UpsertProgress(user_progress, user_progress_seq, user_id, article_id,
                                      completed, score, CURRENT_TIMESTAMP(elapsed))
  /\ user_progress_seq' = user_progress_seq + 1
  /\ resp' = Response("update_progress", args, 200, [message |-> "Progress updated successfully"])
  /\ now' = now + 1
  /\ UNCHANGED <<variant, memVars, users, courses, articles, quizzes, ormVars, registered>>

SqlNext ==
  \/ \E u \in Usernames, e \in Emails, p \in Passwords : SqlRegister("r1", u, e, p)
  \/ \E u \in Usernames, p \in Passwords : SqlLogin("r1", u, p)
  \/ \E l \in LevelArgs : get_courses("r1", l)
  \/ SeedCheck("r1")
  \/ SeedInsert("r1")
  \/ \E u \in UserIds, q \in QuizIds, a \in Answers : submit_quiz("r1", u, q, a)
  \/ \E u \in UserIds, a \in ArticleIds, c \in BOOLEAN, sc \in Scores, e \in SameDay :
        update_progress("r1", u, a, c, sc, e)

\* ====================================== orm: src/backend/executor_simple.py
SECRET_KEY == "your-secret-key"

\* jwt.encode(payload, key): the payload's "sub" and the signing key
JwtEncode(sub, key) == [sub |-> sub, key |-> key]

\* str(int) and int(str) on the identifiers in use; int raises ValueError otherwise
StrOfInt(n) == CASE n = 1 -> "1" [] n = 2 -> "2" [] n = 3 -> "3" [] OTHER -> "n"
IsIntStr(str) == str \in {"1", "2", "3"}
IntOfStr(str) == CASE str = "1" -> 1 [] str = "2" -> 2 [] str = "3" -> 3 [] OTHER -> 0

create_access_token(user_id) == JwtEncode(StrOfInt(user_id), SECRET_KEY)

\* the token query parameter: absent, signed for user 1 or 2, signed with a
\* non-numeric or missing "sub", or signed with another key
NoToken == [sub |-> None, key |-> None]
Tokens ==
  { NoToken, JwtEncode("1", SECRET_KEY), JwtEncode("2", SECRET_KEY),
    JwtEncode("x", SECRET_KEY), JwtEncode(None, SECRET_KEY), JwtEncode("1", "other-key") }

ChallengeIds == {1, 2, 9}
\* submitted programs, by what they do on a challenge's test cases
Codes == {"", "solves_all", "solves_first"}

\* rows of Challenge present in the database (test_cases: number of cases)
ChallengeRows ==
  << [id |-> 1, lesson_id |-> 1, test_cases |-> 1],
     [id |-> 2, lesson_id |-> 1, test_cases |-> 3] >>

\* rows of Lesson present in the database, in insertion order
LessonTables ==
  { << [id |-> 1, order |-> 2], [id |-> 2, order |-> 3], [id |-> 3, order |-> 1] >>,
    << [id |-> 1, order |-> 3], [id |-> 2, order |-> 1], [id |-> 3, order |-> 1] >> }

\* bcrypt.hashpw(password, salt)
bcrypt_hash(password, salt) == <<"bcrypt", salt, password>>

\* pwd_context.hash(password): bcrypt with a fresh salt, one per request
\* (worker s has one request open at a time and the clock moves when it ends)
OrmHashPassword(s, password) == bcrypt_hash(password, <<"salt", s, now>>)

\* pwd_context.verify(plain_password, hashed_password)
verify_password(plain_password, hashed_password) ==
  hashed_password = bcrypt_hash(plain_password, hashed_password[2])

\* filter((User.username == username) | (User.email == email)).first()
OrmExistingUser(rows, username, email) ==
  SelectSeq(rows, LAMBDA r : r.username = username \/ r.email = email)

\* register up to db.add (lines 147-162): the SELECT for an existing user
\* and the hashing
OrmRegisterQuery(s, username, email, password) ==
  LET args == [username |-> username, email |-> email, password |-> password] IN
  /\ variant = "orm"
  /\ Starts(s)
  /\ IF OrmExistingUser(users, username, email) # << >>
     THEN /\ resp' = HTTPException("register", args, 400, "Username or email already exists")
          /\ now' = now + 1
          /\ UNCHANGED sessions
     ELSE /\ sessions' = [sessions EXCEPT ![s] =
                            [status |-> 200, op |-> "register", args |-> args,
                             password_hash |-> OrmHashPassword(s, password)]]
          /\ UNCHANGED <<resp, now>>
  /\ UNCHANGED <<variant, memVars, users, sqlVars, lessons, challenges,
                 orm_progress, orm_submissions, registered>>

\* the uniqueness constraints on User: username (unique), email (unique)
UserIntegrityError(rows, username, email) ==
  \E i \in DOMAIN rows : rows[i].username = username \/ rows[i].email = email

\* db.commit(), db.refresh and the return of register (lines 163-170): the
\* INSERT runs under the constraints of the users table and stamps the row;
\* its IntegrityError is not caught
OrmRegisterCommit(s) ==
  LET work == sessions[s]
      user_id == NextId(users) IN
  /\ variant = "orm"
  /\ work # NoSession
  /\ work.op = "register"
  /\ IF UserIntegrityError(users, work.args.username, work.args.email)
     THEN /\ resp' = HTTPException("register", work.args, 500, "IntegrityError")
          /\ UNCHANGED <<users, registered>>
     ELSE /\ users' = Append(users,
                        [id |-> user_id, username |-> work.args.username,
                         email |-> work.args.email, password_hash |-> work.password_hash,
                         total_points |-> 0, created_at |-> now])
          /\ registered' = registered \cup {<<work.args.username, work.args.password>>}
          /\ resp' = Response("register", work.args, 200,
                        [message |-> "User registered successfully",
                         username |-> work.args.username, user_id |-> user_id])
  /\ now' = now + 1
  /\ sessions' = [sessions EXCEPT ![s] = NoSession]
  /\ UNCHANGED <<variant, memVars, sqlVars, lessons, challenges,
                 orm_progress, orm_submissions>>

\* not (not user or not verify_password(credentials.password, user.password_hash))
OrmCredentialsOk(found, password) ==
  /\ found # << >>
  /\ verify_password(password, found[1].password_hash)

OrmLogin(s, username, password) ==
  LET args == [username |-> username, password |-> password]
      found == SelectSeq(users, LAMBDA r : r.username = username) IN
  /\ variant = "orm"
  /\ Starts(s)
  /\ resp' = IF OrmCredentialsOk(found, password)
             THEN Response("login", args, 200,
                    [message |-> "Login successful",
                     access_token |-> create_access_token(found[1].id),
                     token_type |-> "bearer",
                     user |-> [id |-> found[1].id, username |-> found[1].username,
                               email |-> found[1].email]])
             ELSE HTTPException("login", args, 401, "Invalid credentials")
  /\ now' = now + 1
  /\ UNCHANGED <<variant, memVars, users, sqlVars, ormVars, registered>>

\* order_by(Lesson.order)
ByOrder(a, b) == a.order < b.order

OrmGetLessons(s) ==
  /\ variant = "orm"
  /\ Starts(s)
  /\ resp' = Response("get_lessons", None, 200, SortSeq(lessons, ByOrder))
  /\ now' = now + 1
  /\ UNCHANGED <<variant, memVars, users, sqlVars, ormVars, registered>>

\* get_current_user: the user, or the HTTPException raised; an uncaught TypeError or
\* ValueError of int(payload.get("sub")) ends the request with status 500
get_current_user(token, rows) ==
  IF token.key # SECRET_KEY THEN [status |-> 401, detail |-> "Invalid token"]
  ELSE IF token.sub = None THEN [status |-> 500, detail |-> "TypeError"]
  ELSE IF ~IsIntStr(token.sub) THEN [status |-> 500, detail |-> "ValueError"]
  ELSE LET found == SelectSeq(rows, LAMBDA r : r.id = IntOfStr(token.sub)) IN
       IF found = << >> THEN [status |-> 401, detail |-> "Invalid token"]
       ELSE [status |-> 200, user |-> found[1]]

\* what a program passes of `total` test cases
PassedTests(code, total) ==
  CASE code = "solves_all" -> total
    [] code = "solves_first" -> IF total > 0 THEN 1 ELSE 0
    [] OTHER -> 0

\* round(passed / total * 100, 1), in tenths of a point (333 is 33.3); ties to even
Score(passed, total) ==
  LET q == (passed * 1000) \div total
      r == (passed * 1000) % total IN
  IF 2 * r < total THEN q
  ELSE IF 2 * r > total THEN q + 1
  ELSE IF q % 2 = 0 THEN q ELSE q + 1

\* run_test_cases(code, test_cases)
run_test_cases(code, total) ==
  [passed |-> PassedTests(code, total), total |-> total,
   score |-> Score(PassedTests(code, total), total)]

\* UserProgress(user_id=..., challenge_id=...): the column defaults
NewUserProgress(user_id, challenge_id) ==
  [id |-> 0, user_id |-> user_id, challenge_id |-> challenge_id,
   completed |-> FALSE, best_score |-> 0, attempts |-> 0, last_submitted |-> None]

\* the uniqueness constraint on UserProgress (user_id, challenge_id)
UserProgressIntegrityError(rows, user_id, challenge_id) ==
  \E i \in DOMAIN rows : rows[i].user_id = user_id /\ rows[i].challenge_id = challenge_id

\* faulty variant: best_score takes the last score
NewBestScore_Last(best_score, score) == score

\* max(progress.best_score, test_result["score"])
NewBestScore(best_score, score) == IF score > best_score THEN score ELSE best_score

\* faulty variant: completed assigned from the last result
NewCompleted_Assign(completed, test_result) == test_result.passed = test_result.total

\* if test_result["passed"] == test_result["total"]: progress.completed = True
NewCompleted(completed, test_result) ==
  IF test_result.passed = test_result.total THEN TRUE ELSE completed

\* filter((user_id == ...) & (challenge_id == ...)).first()
ProgressQuery(rows, user_id, challenge_id) ==
  SelectSeq(rows, LAMBDA r : r.user_id = user_id /\ r.challenge_id = challenge_id)

\* faulty variant: falls back to the first challenge when the id is unknown
ChallengeQuery_Fallback(challenge_id) ==
  IF \E i \in DOMAIN challenges : challenges[i].id = challenge_id
  THEN SelectSeq(challenges, LAMBDA c : c.id = challenge_id)
  ELSE SubSeq(challenges, 1, 1)

\* db.query(Challenge).filter(Challenge.id == challenge_id).first()
ChallengeQuery(challenge_id) == SelectSeq(challenges, LAMBDA c : c.id = challenge_id)

\* submit_challenge up to db.add(new_submission) (lines 293-314): an error,
\* or the test result and the pending submission. The Challenge table is
\* never written, so its SELECT is taken together with the SELECT of the user
SubmitWork(challenge_id, code, token) ==
  IF token = NoToken THEN [status |-> 401, detail |-> "No token provided"]
  ELSE LET auth == get_current_user(token, users) IN
  IF auth.status # 200 THEN auth
  ELSE LET challenge == ChallengeQuery(challenge_id) IN
  IF challenge = << >> THEN [status |-> 404, detail |-> "Challenge not found"]
  ELSE LET test_result == run_test_cases(code, challenge[1].test_cases) IN
       [status |-> 200,
        test_result |-> test_result,
        new_submission |->
          [id |-> 0, user_id |-> auth.user.id, challenge_id |-> challenge_id,
           code |-> code, passed_tests |-> test_result.passed,
           total_tests |-> test_result.total, score |-> test_result.score]]

\* the UPDATE of a loaded row writes the columns the session changed
FlushUpdate(row, work) ==
  [row EXCEPT
     !.attempts = IF work.progress.attempts # work.loaded.attempts
                  THEN work.progress.attempts ELSE @,
     !.last_submitted = IF work.progress.last_submitted # work.loaded.last_submitted
                        THEN work.progress.last_submitted ELSE @,
     !.best_score = IF work.progress.best_score # work.loaded.best_score
                    THEN work.progress.best_score ELSE @,
     !.completed = IF work.progress.completed # work.loaded.completed
                   THEN work.progress.completed ELSE @]

\* db.commit(): INSERT the submission, INSERT or UPDATE the progress row
CommitProgress(rows, work) ==
  IF work.is_new
  THEN Append(rows, [work.progress EXCEPT !.id = NextId(rows)])
  ELSE [i \in DOMAIN rows |->
          IF rows[i].id = work.loaded.id THEN FlushUpdate(rows[i], work) ELSE rows[i]]

\* faulty variant: a resubmission replaces the pair's latest record
CommitSubmission_Replace(rows, work) ==
  LET inserted ==
        [work.new_submission EXCEPT !.id = NextId(rows)] @@
          [submitted_at |-> IF "flushed_at" \in DOMAIN work THEN work.flushed_at ELSE now] IN
  IF \E i \in DOMAIN rows : /\ rows[i].user_id = work.new_submission.user_id
                            /\ rows[i].challenge_id = work.new_submission.challenge_id
  THEN [i \in DOMAIN rows |->
          IF /\ rows[i].user_id = work.new_submission.user_id
             /\ rows[i].challenge_id = work.new_submission.challenge_id
          THEN [inserted EXCEPT !.id = rows[i].id] ELSE rows[i]]
  ELSE Append(rows, inserted)

\* the INSERT of the submission record; the row gets the next id and its
\* submitted_at, the time of the INSERT (the time of the flush when the
\* statement was sent before the rest of the commit)
CommitSubmission(rows, work) ==
  Append(rows, [work.new_submission EXCEPT !.id = NextId(rows)] @@
                 [submitted_at |-> IF "flushed_at" \in DOMAIN work
                                   THEN work.flushed_at ELSE now])

\* response_model=SubmissionResponse: the fields of the row that are sent
SubmissionResponse(row) ==
  [id |-> row.id, user_id |-> row.user_id, challenge_id |-> row.challenge_id,
   passed_tests |-> row.passed_tests, total_tests |-> row.total_tests,
   score |-> row.score, submitted_at |-> row.submitted_at]

\* submit_challenge up to db.add(new_submission) (lines 293-314): the token
\* check, the SELECTs of the user and the challenge, the test run
SubmitBegin(s, challenge_id, code, token) ==
  LET args == [challenge_id |-> challenge_id, code |-> code, token |-> token]
      work == SubmitWork(challenge_id, code, token) IN
  /\ variant = "orm"
  /\ Starts(s)
  /\ IF work.status # 200
     THEN /\ resp' = HTTPException("submit_challenge", args, work.status, work.detail)
          /\ now' = now + 1
          /\ UNCHANGED sessions
     ELSE /\ sessions' = [sessions EXCEPT ![s] =
                            work @@ [op |-> "submit_challenge", args |-> args]]
          /\ UNCHANGED <<resp, now>>
  /\ UNCHANGED <<variant, memVars, users, sqlVars, lessons, challenges,
                 orm_progress, orm_submissions, registered>>

\* the SELECT of the progress row and attempts += 1 (lines 317-325); the new
\* or changed row stays in the session (autoflush=False)
SubmitLoadProgress(s) ==
  LET work == sessions[s]
      found == ProgressQuery(orm_progress, work.new_submission.user_id,
                             work.new_submission.challenge_id)
      loaded == IF found = << >>
                THEN NewUserProgress(work.new_submission.user_id,
                                     work.new_submission.challenge_id)
                ELSE found[1] IN
  /\ variant = "orm"
  /\ work # NoSession
  /\ work.op = "submit_challenge"
  /\ "loaded" \notin DOMAIN work
  /\ sessions' = [sessions EXCEPT ![s] =
                    work @@ [is_new |-> found = << >>, loaded |-> loaded,
                             progress |-> [loaded EXCEPT !.attempts = @ + 1],
                             stamped |-> FALSE]]
  /\ UNCHANGED <<variant, now, memVars, users, sqlVars, lessons, challenges,
                 orm_progress, orm_submissions, registered, resp>>

\* datetime.utcnow() of line 326 reads the clock; lines 327-331 set
\* best_score and completed
SubmitStampProgress(s) ==
  LET work == sessions[s] IN
  /\ variant = "orm"
  /\ work # NoSession
  /\ work.op = "submit_challenge"
  /\ "loaded" \in DOMAIN work
  /\ ~work.stamped
  /\ sessions' = [sessions EXCEPT
        ![s].progress = [@ EXCEPT !.last_submitted = now,
                                  !.best_score = NewBestScore(@, work.test_result.score),
                                  !.completed = NewCompleted(@, work.test_result)],
        ![s].stamped = TRUE]
  /\ UNCHANGED <<variant, now, memVars, users, sqlVars, lessons, challenges,
                 orm_progress, orm_submissions, registered, resp>>

\* db.commit(), db.refresh and the return (lines 333-336); an IntegrityError
\* rolls the transaction back and is not caught
SubmitCommit(s) ==
  LET work == sessions[s] IN
  /\ variant = "orm"
  /\ work # NoSession
  /\ work.op = "submit_challenge"
  /\ "loaded" \in DOMAIN work
  /\ work.stamped
  /\ IF work.is_new /\ UserProgressIntegrityError(orm_progress, work.progress.user_id,
                                                   work.progress.challenge_id)
     THEN /\ resp' = HTTPException("submit_challenge", work.args, 500, "IntegrityError")
          /\ UNCHANGED <<orm_progress, orm_submissions>>
     ELSE /\ orm_submissions' = CommitSubmission(orm_submissions, work)
          /\ orm_progress' = CommitProgress(orm_progress, work)
          /\ resp' = Response("submit_challenge", work.args, 200,
                        SubmissionResponse(orm_submissions'[Len(orm_submissions')]))
  /\ now' = now + 1
  /\ sessions' = [sessions EXCEPT ![s] = NoSession]
  /\ UNCHANGED <<variant, memVars, users, sqlVars, lessons, challenges, registered>>

OrmNext ==
  \/ \E u \in Usernames, e \in Emails, p \in Passwords : OrmRegisterQuery("r1", u, e, p)
  \/ OrmRegisterCommit("r1")
  \/ \E u \in Usernames, p \in Passwords : OrmLogin("r1", u, p)
  \/ OrmGetLessons("r1")
  \/ \E c \in ChallengeIds, code \in Codes, t \in Tokens : SubmitBegin("r1", c, code, t)
  \/ SubmitLoadProgress("r1")
  \/ SubmitStampProgress("r1")
  \/ SubmitCommit("r1")

\* --------------------------------------------------------- specifications
\* the stores at the start of the process
InitStores ==
  /\ variant \in Variants
  /\ users_db = EmptyDict
  /\ progress_db = EmptyDict
  /\ progress_keys = << >>
  /\ users = << >>
  /\ courses = << >>
  /\ articles = << >>
  /\ quizzes = << >>
  /\ user_progress = << >>
  /\ user_progress_seq = 0
  /\ IF variant = "orm"
     THEN lessons \in LessonTables /\ challenges = ChallengeRows
     ELSE lessons = << >> /\ challenges = << >>
  /\ orm_progress = << >>
  /\ orm_submissions = << >>
  /\ sessions = [s \in SessionIds |-> NoSession]
  /\ registered = {}
  /\ resp = Response("none", None, 0, None)

Init == InitStores /\ now = 0

Next == MemNext \/ SqlNext \/ OrmNext

Spec == Init /\ [][Next]_vars

\* the handlers that write progress, on two workers
ConcNext ==
  \/ \E s \in SessionIds, u \in Usernames, e \in Emails : OrmRegisterQuery(s, u, e, "pw1")
  \/ \E s \in SessionIds : OrmRegisterCommit(s)
  \/ \E s \in SessionIds, c \in ChallengeIds, code \in Codes, t \in Tokens :
        SubmitBegin(s, c, code, t)
  \/ \E s \in SessionIds : SubmitLoadProgress(s)
  \/ \E s \in SessionIds : SubmitStampProgress(s)
  \/ \E s \in SessionIds : SubmitCommit(s)
  \/ \E s \in SessionIds, u \in UserIds, a \in ArticleIds, c \in BOOLEAN, sc \in Scores,
        e \in SameDay : update_progress(s, u, a, c, sc, e)
  \/ \E s \in SessionIds, u \in MemUserIds, l \in MemLessonIds, c \in BOOLEAN,
        t \in ClientTimes : SaveProgressPut(s, u, l, c, t)
  \/ \E s \in SessionIds : SaveProgressReturn(s)

SpecConc == Init /\ [][ConcNext]_vars

\* ============================================== IEEE-754 double arithmetic
\* Python floats and SQLite REALs are binary64. A magnitude is an unbounded
\* natural kept as a little-endian sequence of limbs; a float is
\* [s, m, e] with value s * m * 2^e, m = << >> (a zero, which keeps its sign
\* s) or 2^52 <= m < 2^53.
LimbBits == 15
Base == 2 ^ LimbBits
Precision == 53

RECURSIVE BigNorm(_)
BigNorm(a) ==
  IF a = << >> THEN a
  ELSE IF a[Len(a)] = 0 THEN BigNorm(SubSeq(a, 1, Len(a) - 1)) ELSE a

RECURSIVE BigFromInt(_)
BigFromInt(n) == IF n = 0 THEN << >> ELSE <<n % Base>> \o BigFromInt(n \div Base)

BigLimb(a, i) == IF i <= Len(a) THEN a[i] ELSE 0

BigAdd(a, b) ==
  LET RECURSIVE AddFrom(_, _)
      AddFrom(i, carry) ==
        IF i > Len(a) /\ i > Len(b)
        THEN IF carry = 0 THEN << >> ELSE <<carry>>
        ELSE LET t == BigLimb(a, i) + BigLimb(b, i) + carry IN
             <<t % Base>> \o AddFrom(i + 1, t \div Base) IN
  AddFrom(1, 0)

\* a - b for a >= b
BigSub(a, b) ==
  LET RECURSIVE SubFrom(_, _)
      SubFrom(i, borrow) ==
        IF i > Len(a) THEN << >>
        ELSE LET t == a[i] - BigLimb(b, i) - borrow IN
             <<IF t < 0 THEN t + Base ELSE t>> \o SubFrom(i + 1, IF t < 0 THEN 1 ELSE 0) IN
  BigNorm(SubFrom(1, 0))

\* -1, 0, 1 as a < b, a = b, a > b
BigCmp(a, b) ==
  LET RECURSIVE CmpFrom(_)
      CmpFrom(i) ==
        IF i = 0 THEN 0
        ELSE IF a[i] < b[i] THEN -1
        ELSE IF a[i] > b[i] THEN 1
        ELSE CmpFrom(i - 1) IN
  IF Len(a) < Len(b) THEN -1
  ELSE IF Len(a) > Len(b) THEN 1
  ELSE CmpFrom(Len(a))

\* a * n for 0 <= n < Base
BigMulSmall(a, n) ==
  LET RECURSIVE MulFrom(_, _)
      MulFrom(i, carry) ==
        IF i > Len(a)
        THEN IF carry = 0 THEN << >> ELSE <<carry>>
        ELSE LET t == a[i] * n + carry IN
             <<t % Base>> \o MulFrom(i + 1, t \div Base) IN
  BigNorm(MulFrom(1, 0))

\* a * Base^k
BigShiftLimbs(a, k) == IF a = << >> THEN a ELSE [i \in 1..k |-> 0] \o a

BigMul(a, b) ==
  LET RECURSIVE MulFrom(_)
      MulFrom(i) ==
        IF i > Len(b) THEN << >>
        ELSE BigAdd(BigShiftLimbs(BigMulSmall(a, b[i]), i - 1), MulFrom(i + 1)) IN
  BigNorm(MulFrom(1))

\* quotient and remainder of a by n, 0 < n <= Base
BigDivSmall(a, n) ==
  LET RECURSIVE DivFrom(_, _)
      DivFrom(i, r) ==
        IF i = 0 THEN [q |-> << >>, r |-> r]
        ELSE LET Put(digit, rest) == [q |-> rest.q \o <<digit>>, r |-> rest.r] IN
             Put((r * Base + a[i]) \div n, DivFrom(i - 1, (r * Base + a[i]) % n))
      Norm(d) == [q |-> BigNorm(d.q), r |-> d.r] IN
  Norm(DivFrom(Len(a), 0))

\* a * 2^k
BigShl(a, k) == BigShiftLimbs(BigMulSmall(a, 2 ^ (k % LimbBits)), k \div LimbBits)

\* floor(a / 2^k), and whether a bit was shifted out
BigShr(a, k) ==
  LET Shifted(d, lost) == [q |-> d.q, sticky |-> lost \/ d.r # 0] IN
  Shifted(BigDivSmall(IF k \div LimbBits >= Len(a) THEN << >>
                      ELSE SubSeq(a, k \div LimbBits + 1, Len(a)),
                      2 ^ (k % LimbBits)),
          \E i \in 1..(k \div LimbBits) : BigLimb(a, i) # 0)

BigBitLen(a) ==
  LET RECURSIVE BitLen(_)
      BitLen(n) == IF n = 0 THEN 0 ELSE 1 + BitLen(n \div 2) IN
  IF a = << >> THEN 0 ELSE LimbBits * (Len(a) - 1) + BitLen(a[Len(a)])

\* a / 2^k rounded to the nearest integer, ties to even; sticky tells that
\* a stands for a value slightly above a
BigRoundHalfEven(a, k, sticky) ==
  LET Odd(q) == q # << >> /\ q[1] % 2 = 1
      Up(q, guard, rest) ==
        IF guard /\ (rest \/ Odd(q)) THEN BigAdd(q, <<1>>) ELSE q
      Halve(sh) == Up(BigShr(sh.q, 1).q, Odd(sh.q), sh.sticky \/ sticky) IN
  IF k = 0 THEN a ELSE Halve(BigShr(a, k - 1))

FlZero == [s |-> 1, m |-> << >>, e |-> 0]

\* the double nearest to s * (m + sticky fraction) * 2^e, ties to even
FlRound(s, m, e, sticky) ==
  LET Renormalized(r, e2) ==
        IF BigBitLen(r) > Precision
        THEN [s |-> s, m |-> BigShr(r, 1).q, e |-> e2 + 1]
        ELSE [s |-> s, m |-> r, e |-> e2]
      Rounded(len) ==
        IF len = 0 THEN [s |-> s, m |-> << >>, e |-> 0]
        ELSE IF len <= Precision
        THEN [s |-> s, m |-> BigShl(m, Precision - len), e |-> e - (Precision - len)]
        ELSE Renormalized(BigRoundHalfEven(m, len - Precision, sticky),
                          e + (len - Precision)) IN
  Rounded(BigBitLen(m))

\* float(n) of a Python int
FlFromInt(n) == FlRound(IF n < 0 THEN -1 ELSE 1, BigFromInt(IF n < 0 THEN -n ELSE n), 0, FALSE)

FlMul(x, y) == FlRound(x.s * y.s, BigMul(x.m, y.m), x.e + y.e, FALSE)

\* x / n for an integer n > 0; x.m need not be normalised
FlDivInt(x, n) ==
  LET Quotient(d) == FlRound(x.s, d.q, x.e - 5 * LimbBits, d.r # 0) IN
  Quotient(BigDivSmall(BigShl(x.m, 5 * LimbBits), n))

FlAdd(x, y) ==
  LET Aligned(a, b, e) ==
        IF x.s = y.s THEN FlRound(x.s, BigAdd(a, b), e, FALSE)
        ELSE IF BigCmp(a, b) = 0 THEN FlZero
        ELSE IF BigCmp(a, b) > 0 THEN FlRound(x.s, BigSub(a, b), e, FALSE)
        ELSE FlRound(y.s, BigSub(b, a), e, FALSE)
      Align(e) == Aligned(BigShl(x.m, x.e - e), BigShl(y.m, y.e - e), e) IN
  IF x.m = << >> /\ y.m = << >>
  THEN (IF x.s = -1 /\ y.s = -1 THEN [FlZero EXCEPT !.s = -1] ELSE FlZero)
  ELSE IF x.m = << >> THEN y
  ELSE IF y.m = << >> THEN x
  ELSE Align(IF x.e < y.e THEN x.e ELSE y.e)

FlSub(x, y) == FlAdd(x, [y EXCEPT !.s = -y.s])

FlAbs(x) == [x EXCEPT !.s = 1]

\* x < y
FlLess(x, y) == LET Negative(d) == d.m # << >> /\ d.s = -1 IN Negative(FlSub(x, y))

FlMin(x, y) == IF FlLess(y, x) THEN y ELSE x

\* n / d of two Python ints, d > 0; also the decimal literal written n/d
FlQuot(n, d) == FlDivInt(FlFromInt(n), d)

\* Python round(x, digits): the decimal with that many digits nearest to the
\* exact value of x, ties to even (an integer count q of units 10^-digits),
\* then the one double nearest to q / 10^digits, with the sign of x also when
\* q is 0
PyRound(x, digits) ==
  LET RECURSIVE Pow10(_)
      Pow10(k) == IF k = 0 THEN 1 ELSE 10 * Pow10(k - 1)
      Nearest(scaled) ==
        IF x.e >= 0 THEN BigShl(scaled, x.e) ELSE BigRoundHalfEven(scaled, -x.e, FALSE) IN
  FlDivInt([s |-> x.s, m |-> Nearest(BigMulSmall(x.m, Pow10(digits))), e |-> 0],
           Pow10(digits))

\* ================================= sql: ML scoring, src/backend/main.py
\* the dict features of preprocess_user_data and its normalisation
NormalizedFeatures(features) ==
  [engagement_score |-> FlMin(FlQuot(features.active_days, 30), FlFromInt(1)),
   performance_score |->
     IF features.avg_score.m # << >> THEN FlDivInt(features.avg_score, 100) ELSE FlZero,
   completion_rate |->
     FlQuot(features.completed_count,
            IF features.total_attempts > 1 THEN features.total_attempts ELSE 1),
   consistency_score |-> FlMin(FlQuot(features.active_days, 14), FlFromInt(1))]

LessonLevels == {"beginner", "intermediate", "advanced", "expert"}

\* level_weights.get(lesson_level, 0.5)
lesson_difficulty(lesson_level) ==
  IF lesson_level = "beginner" THEN FlQuot(3, 10)
  ELSE IF lesson_level = "intermediate" THEN FlQuot(6, 10)
  ELSE IF lesson_level = "advanced" THEN FlQuot(9, 10)
  ELSE FlQuot(5, 10)

user_skill(user_features) ==
  FlAdd(FlAdd(FlAdd(FlMul(user_features.engagement_score, FlQuot(25, 100)),
                    FlMul(user_features.performance_score, FlQuot(50, 100))),
              FlMul(user_features.completion_rate, FlQuot(15, 100))),
        FlMul(user_features.consistency_score, FlQuot(10, 100)))

difficulty_label_Inclusive(predicted_difficulty) ==
  IF ~FlLess(FlQuot(3, 10), predicted_difficulty) THEN "Easy"
  ELSE IF ~FlLess(FlQuot(6, 10), predicted_difficulty) THEN "Moderate"
  ELSE "Challenging"

difficulty_label(predicted_difficulty) ==
  IF FlLess(predicted_difficulty, FlQuot(3, 10)) THEN "Easy"
  ELSE IF FlLess(predicted_difficulty, FlQuot(6, 10)) THEN "Moderate"
  ELSE "Challenging"

recommendation(label) ==
  IF label = "Easy" THEN "Perfect match! This should be comfortable."
  ELSE IF label = "Moderate" THEN "Good challenge level for growth."
  ELSE "Consider reviewing prerequisites first."

predict_difficulty(user_features, lesson_level) ==
  LET Prediction(skill, predicted_difficulty, label) ==
        [predicted_difficulty |-> label,
         confidence_score |->
           PyRound(FlMul(FlSub(FlFromInt(1), predicted_difficulty), FlFromInt(100)), 2),
         recommendation |-> recommendation(label),
         user_skill_level |-> PyRound(FlMul(skill, FlFromInt(100)), 2),
         lesson_difficulty_score |->
           PyRound(FlMul(lesson_difficulty(lesson_level), FlFromInt(100)), 2)]
      Labelled(skill, predicted_difficulty) ==
        Prediction(skill, predicted_difficulty, difficulty_label(predicted_difficulty))
      Compared(skill) ==
        Labelled(skill, FlAbs(FlSub(lesson_difficulty(lesson_level), skill))) IN
  Compared(user_skill(user_features))

\* ---- predict_difficulty applied to a bounded set of feature dicts
\* aggregates of a user's rows: attempts, days with activity among them,
\* completed rows among them, and the sum of their scores
AttemptCounts == {0, 1, 2, 30}
ActiveDayCounts == {1, 2, 14, 15, 18, 24, 27, 30}
CompletedCounts == {0, 1, 2, 10, 15, 20, 30}
RowScoreAverages == {-50, 0, 10, 90, 100, 150}

\* with 30 attempts also sums whose rounded scores are -0.0 (round(-0.004, 2))
ScoreSums(total_attempts) ==
  {a * total_attempts : a \in RowScoreAverages} \cup
  (IF total_attempts = 30 THEN {2000, -93, -4293} ELSE {})

\* the dict features built from one aggregate row (avg_completed_score, which
\* the normalisation never reads, is left out)
FeatureDicts ==
  {[total_attempts |-> 0, avg_score |-> FlZero, completed_count |-> 0, active_days |-> 0]}
  \cup
  UNION {{[total_attempts |-> c, avg_score |-> FlQuot(s, c), completed_count |-> k,
           active_days |-> d] :
             s \in ScoreSums(c),
             k \in {x \in CompletedCounts : x <= c},
             d \in {x \in ActiveDayCounts : x <= c}} :
         c \in AttemptCounts \ {0}}
  \cup
  {[total_attempts |-> 1,
    avg_score |-> FlMul(FlFromInt(k * 1000), FlFromInt(1000000000)),
    completed_count |-> k % 2, active_days |-> 1] : k \in {181, -181, 3999}}

\* a call of predict_difficulty about to run
InitPredict ==
  /\ variant = "sql"
  /\ now = 0
  /\ users_db = EmptyDict
  /\ progress_db = EmptyDict
  /\ progress_keys = << >>
  /\ users = << >>
  /\ courses = << >>
  /\ articles = << >>
  /\ quizzes = << >>
  /\ user_progress = << >>
  /\ user_progress_seq = 0
  /\ lessons = << >>
  /\ challenges = << >>
  /\ orm_progress = << >>
  /\ orm_submissions = << >>
  /\ sessions = [s \in SessionIds |-> NoSession]
  /\ registered = {}
  /\ \E features \in FeatureDicts, lesson_level \in LessonLevels :
        resp = Response("predict_difficulty",
                        [features |-> features,
                         user_features |-> NormalizedFeatures(features),
                         lesson_level |-> lesson_level], 0, None)

PredictDifficultyCall ==
  /\ variant = "sql"
  /\ now < MaxTime
  /\ resp.op = "predict_difficulty"
  /\ resp.status = 0
  /\ resp' = Response("predict_difficulty", resp.args, 200,
                      predict_difficulty(resp.args.user_features, resp.args.lesson_level))
  /\ now' = now + 1
  /\ UNCHANGED <<variant, memVars, users, sqlVars, ormVars, registered>>

PredictNext == PredictDifficultyCall

SpecPredict == InitPredict /\ [][PredictNext]_vars

\* ---- preprocess_user_data over the stored rows
\* score values posted to update_progress (ProgressUpdate.score is any int)
MlScores == {-50, 50, 150}

\* AVG(score), with the NULL of an empty selection already replaced by 0
\* as lines 507 and 509 do
AvgScoreOrZero(rows) ==
  LET RECURSIVE SumScores(_)
      SumScores(r) == IF r = << >> THEN 0 ELSE Head(r).score + SumScores(Tail(r)) IN
  IF rows = << >> THEN FlZero ELSE FlDivInt(FlFromInt(SumScores(rows)), Len(rows))

preprocess_user_data(user_id) ==
  LET Features(rows, done) ==
        [total_attempts |-> Len(rows),
         avg_score |-> AvgScoreOrZero(rows),
         completed_count |-> Len(done),
         avg_completed_score |-> AvgScoreOrZero(done),
         active_days |-> Cardinality({DATE(rows[i].completed_at) : i \in DOMAIN rows})]
      Selected(rows) == Features(rows, SelectSeq(rows, LAMBDA r : r.completed = 1)) IN
  NormalizedFeatures(Selected(SelectSeq(user_progress, LAMBDA r : r.user_id = user_id)))

\* SELECT score ... WHERE completed = 1 ORDER BY completed_at DESC LIMIT 10;
\* rows of one stamp come in the order of the (user_id, article_id) index
\* that sqlite scans
RecentScores(user_id) ==
  LET Limit(sorted) ==
        [i \in 1..(IF Len(sorted) > 10 THEN 10 ELSE Len(sorted)) |-> sorted[i].score] IN
  Limit(SortSeq(SelectSeq(user_progress, LAMBDA r : r.user_id = user_id /\ r.completed = 1),
                LAMBDA a, b : \/ a.completed_at > b.completed_at
                              \/ /\ a.completed_at = b.completed_at
                                 /\ a.article_id < b.article_id))

\* the trend, the insights and the returned dict of analyze_user_ml
UserAnalysis(user_id, features, recent_scores) ==
  LET Trend ==
        IF Len(recent_scores) > 1 /\ recent_scores[1] > recent_scores[Len(recent_scores)]
        THEN "improving" ELSE "stable" IN
  [user_id |-> user_id,
   preprocessed_features |-> features,
   performance_trend |-> Trend,
   recent_scores |-> recent_scores,
   ml_insights |->
     [engagement |->
        IF FlLess(FlQuot(7, 10), features.engagement_score) THEN "High"
        ELSE IF FlLess(FlQuot(4, 10), features.engagement_score) THEN "Moderate"
        ELSE "Low",
      skill_level |->
        IF FlLess(FlQuot(8, 10), features.performance_score) THEN "Advanced"
        ELSE IF FlLess(FlQuot(6, 10), features.performance_score) THEN "Intermediate"
        ELSE "Beginner"]]

\* analyze_user_ml up to the return of preprocess_user_data (lines 601-606)
AnalyzeFeatures(s, user_id) ==
  /\ variant = "sql"
  /\ Starts(s)
  /\ sessions' = [sessions EXCEPT ![s] =
                    [status |-> 200, op |-> "analyze_user_ml", user_id |-> user_id,
                     features |-> preprocess_user_data(user_id)]]
  /\ UNCHANGED <<variant, now, memVars, users, sqlVars, lessons, challenges,
                 orm_progress, orm_submissions, registered, resp>>

\* the SELECT of the recent scores and the return (lines 608-634)
AnalyzeRecentScores(s) ==
  LET work == sessions[s] IN
  /\ variant = "sql"
  /\ work # NoSession
  /\ work.op = "analyze_user_ml"
  /\ resp' = Response("analyze_user_ml", [user_id |-> work.user_id], 200,
                      UserAnalysis(work.user_id, work.features, RecentScores(work.user_id)))
  /\ now' = now + 1
  /\ sessions' = [sessions EXCEPT ![s] = NoSession]
  /\ UNCHANGED <<variant, memVars, users, sqlVars, lessons, challenges,
                 orm_progress, orm_submissions, registered>>

MlNext ==
  \/ \E u \in UserIds, a \in ArticleIds, c \in BOOLEAN, sc \in MlScores, e \in Elapsed :
        update_progress("r1", u, a, c, sc, e)
  \/ \E u \in UserIds : AnalyzeFeatures("r1", u)
  \/ AnalyzeRecentScores("r1")

SpecMl == Init /\ [][MlNext]_vars

\* ---- orm: the two read handlers behind the token, and their specification
\* `if not token` then get_current_user
Authenticate(token) ==
  IF token = NoToken THEN [status |-> 401, detail |-> "No token provided"]
  ELSE get_current_user(token, users)

\* the users row read by get_current_user never changes; the progress rows
\* are read by one query
get_user_progress(s, token) ==
  LET Answer(auth) ==
        IF auth.status # 200
        THEN HTTPException("get_user_progress", [token |-> token], auth.status, auth.detail)
        ELSE LET progress == SelectSeq(orm_progress, LAMBDA p : p.user_id = auth.user.id) IN
             Response("get_user_progress", [token |-> token], 200,
               [user_id |-> auth.user.id,
                progress |-> [i \in DOMAIN progress |->
                   [challenge_id |-> progress[i].challenge_id,
                    completed |-> progress[i].completed,
                    best_score |-> progress[i].best_score,
                    attempts |-> progress[i].attempts]]]) IN
  /\ variant = "orm"
  /\ Starts(s)
  /\ resp' = Answer(Authenticate(token))
  /\ now' = now + 1
  /\ UNCHANGED <<variant, memVars, users, sqlVars, ormVars, registered>>

\* for an authenticated user the handler reaches db.func.avg(...); db is a
\* Session, which has no attribute func, so the handler raises AttributeError
get_user_stats(s, token) ==
  LET Answer(auth) ==
        IF auth.status # 200
        THEN HTTPException("get_user_stats", [token |-> token], auth.status, auth.detail)
        ELSE HTTPException("get_user_stats", [token |-> token], 500, "AttributeError") IN
  /\ variant = "orm"
  /\ Starts(s)
  /\ resp' = Answer(Authenticate(token))
  /\ now' = now + 1
  /\ UNCHANGED <<variant, memVars, users, sqlVars, ormVars, registered>>

AuthNext ==
  \/ \E u \in Usernames, e \in Emails : OrmRegisterQuery("r1", u, e, "pw1")
  \/ OrmRegisterCommit("r1")
  \/ \E c \in ChallengeIds, t \in Tokens : SubmitBegin("r1", c, "solves_first", t)
  \/ SubmitLoadProgress("r1")
  \/ SubmitStampProgress("r1")
  \/ SubmitCommit("r1")
  \/ \E t \in Tokens : get_user_progress("r1", t)
  \/ \E t \in Tokens : get_user_stats("r1", t)

SpecAuth == Init /\ [][AuthNext]_vars

\* ---- orm: db.commit() statement by statement, and a crash of the process
\* faulty variant: an engine in autocommit mode makes the INSERT durable at once
TransactionInsert_Autocommit(rows, work) == CommitSubmission(rows, work)

\* the durable table after the INSERT of the submission has been sent inside
\* the session's open transaction (sessionmaker(autocommit=False)): unchanged
\* until COMMIT
TransactionInsert(rows, work) == rows

\* db.commit() of line 333 has flushed the INSERT of new_submission, which
\* fixes the row's submitted_at; the progress row's INSERT or UPDATE and the
\* COMMIT are still to come
FlushSubmission(s) ==
  /\ variant = "orm"
  /\ sessions[s] # NoSession
  /\ sessions[s].op = "submit_challenge"
  /\ "loaded" \in DOMAIN sessions[s]
  /\ sessions[s].stamped
  /\ "flushed_at" \notin DOMAIN sessions[s]
  /\ orm_submissions' = TransactionInsert(orm_submissions, sessions[s])
  /\ sessions' = [sessions EXCEPT ![s] = @ @@ [flushed_at |-> now]]
  /\ UNCHANGED <<variant, now, memVars, users, sqlVars, lessons, challenges,
                 orm_progress, registered, resp>>

\* the process dies: open sessions are gone and the engine rolls their
\* transactions back; resp notes which requests had flushed their INSERT
Crash ==
  /\ variant = "orm"
  /\ \E s \in SessionIds : sessions[s] # NoSession
  /\ sessions' = [s \in SessionIds |-> NoSession]
  /\ resp' = Response("crash", None, 0,
                      [flushed |-> {s \in SessionIds : "flushed_at" \in DOMAIN sessions[s]}])
  /\ UNCHANGED <<variant, now, memVars, users, sqlVars, lessons, challenges,
                 orm_progress, orm_submissions, registered>>

\* two workers, whose requests overlap and may be cut short by a crash
CrashNext ==
  \/ \E u \in Usernames, e \in Emails : OrmRegisterQuery("r1", u, e, "pw1")
  \/ OrmRegisterCommit("r1")
  \/ \E s \in SessionIds, c \in ChallengeIds, code \in {"solves_all", "solves_first"},
        t \in {NoToken, JwtEncode("1", SECRET_KEY), JwtEncode("2", SECRET_KEY)} :
        SubmitBegin(s, c, code, t)
  \/ \E s \in SessionIds : SubmitLoadProgress(s)
  \/ \E s \in SessionIds : SubmitStampProgress(s)
  \/ \E s \in SessionIds : FlushSubmission(s)
  \/ \E s \in SessionIds : SubmitCommit(s)
  \/ Crash

SpecCrash == Init /\ [][CrashNext]_vars

\* ---- mem: register on two workers
MemRaceNext ==
  \/ \E s \in SessionIds, u \in Usernames, e \in Emails, p \in Passwords :
        RegisterCheck(s, u, e, p)
  \/ \E s \in SessionIds : RegisterNow(s)
  \/ \E s \in SessionIds : RegisterInsert(s)

SpecMemRace == Init /\ [][MemRaceNext]_vars

\* ---- mem and sql: get_stats after progress was saved
\* round((completed / total) * 100, 1) if total > 0 else 0
CompletionRate(completed, total) ==
  IF total > 0 THEN PyRound(FlMul(FlQuot(completed, total), FlFromInt(100)), 1)
  ELSE FlZero

\* get_stats of src/main.py up to iter(progress_db.items()) (line 182): the
\* iterator notes the size of the dict and starts at its first entry
MemGetStatsBegin(s, user_id) ==
  /\ variant = "mem"
  /\ Starts(s)
  /\ sessions' = [sessions EXCEPT ![s] =
                    [status |-> 200, op |-> "get_stats", args |-> [user_id |-> user_id],
                     di_used |-> Len(progress_keys), di_pos |-> 1, user_progress |-> << >>]]
  /\ UNCHANGED <<variant, now, memVars, users, sqlVars, lessons, challenges,
                 orm_progress, orm_submissions, registered, resp>>

\* one step of the list comprehension of line 182: next() on the iterator
\* raises RuntimeError when the dict changed size, yields the entry at its
\* position, or ends the loop, after which lines 183-190 count and return
MemGetStatsIterate(s) ==
  LET work == sessions[s]
      v == progress_db[progress_keys[work.di_pos]]
      completed_lessons ==
        Len(SelectSeq(work.user_progress, LAMBDA r : r.completed)) IN
  /\ variant = "mem"
  /\ work # NoSession
  /\ work.op = "get_stats"
  /\ IF work.di_used # Len(progress_keys)
     THEN /\ resp' = HTTPException("get_stats", work.args, 500, "RuntimeError")
          /\ now' = now + 1
          /\ sessions' = [sessions EXCEPT ![s] = NoSession]
     ELSE IF work.di_pos <= Len(progress_keys)
     THEN /\ sessions' = [sessions EXCEPT
                            ![s].di_pos = @ + 1,
                            ![s].user_progress =
                               IF v.user_id = work.args.user_id THEN Append(@, v) ELSE @]
          /\ UNCHANGED <<resp, now>>
     ELSE /\ resp' = Response("get_stats", work.args, 200,
                         [total_lessons |-> Len(LESSONS),
                          completed_lessons |-> completed_lessons,
                          completion_rate |-> CompletionRate(completed_lessons, Len(LESSONS)),
                          total_challenges |-> 3,
                          completed_challenges |-> 0])
          /\ now' = now + 1
          /\ sessions' = [sessions EXCEPT ![s] = NoSession]
  /\ UNCHANGED <<variant, memVars, users, sqlVars, lessons, challenges,
                 orm_progress, orm_submissions, registered>>

\* SELECT a.title, up.score, up.completed_at FROM user_progress up
\* JOIN articles a ON up.article_id = a.id WHERE up.user_id = ?
\* ORDER BY up.completed_at DESC LIMIT 5; rows of one stamp come in the order
\* of the (user_id, article_id) index that sqlite scans
RecentActivities(user_id) ==
  LET Title(article_id) ==
        SelectSeq(articles, LAMBDA a : a.id = article_id)[1].title
      Limit(sorted) ==
        [i \in 1..(IF Len(sorted) > 5 THEN 5 ELSE Len(sorted)) |->
           [title |-> Title(sorted[i].article_id), score |-> sorted[i].score,
            completed_at |-> sorted[i].completed_at]] IN
  Limit(SortSeq(SelectSeq(user_progress,
                          LAMBDA r : /\ r.user_id = user_id
                                     /\ \E i \in DOMAIN articles : articles[i].id = r.article_id),
                LAMBDA a, b : \/ a.completed_at > b.completed_at
                              \/ /\ a.completed_at = b.completed_at
                                 /\ a.article_id < b.article_id))

\* get_stats of src/backend/main.py up to its first SELECT (lines 341-349)
SqlGetStatsBegin(s, user_id) ==
  LET args == [user_id |-> user_id]
      user == SelectSeq(users, LAMBDA r : r.id = user_id) IN
  /\ variant = "sql"
  /\ Starts(s)
  /\ IF user = << >>
     THEN /\ resp' = HTTPException("get_stats", args, 404, "User not found")
          /\ now' = now + 1
          /\ UNCHANGED sessions
     ELSE /\ sessions' = [sessions EXCEPT ![s] =
                            [status |-> 200, op |-> "get_stats", args |-> args,
                             user |-> user[1], selects |-> << >>]]
          /\ UNCHANGED <<resp, now>>
  /\ UNCHANGED <<variant, memVars, users, sqlVars, lessons, challenges,
                 orm_progress, orm_submissions, registered>>

\* the next SELECT of get_stats: the completed count (line 351), the article
\* count (line 354), the recent activities (lines 357-365) and the return
SqlGetStatsSelect(s) ==
  LET work == sessions[s]
      user_id == work.args.user_id
      completed == Len(SelectSeq(user_progress,
                                 LAMBDA r : r.user_id = user_id /\ r.completed = 1)) IN
  /\ variant = "sql"
  /\ work # NoSession
  /\ work.op = "get_stats"
  /\ CASE Len(work.selects) = 0 ->
            /\ sessions' = [sessions EXCEPT ![s].selects = <<completed>>]
            /\ UNCHANGED <<resp, now>>
       [] Len(work.selects) = 1 ->
            /\ sessions' = [sessions EXCEPT ![s].selects = Append(@, Len(articles))]
            /\ UNCHANGED <<resp, now>>
       [] OTHER ->
            /\ now' = now + 1
            /\ resp' = Response("get_stats", work.args, 200,
                          [username |-> work.user.username,
                           total_points |-> work.user.total_points,
                           completed_articles |-> work.selects[1],
                           total_articles |-> work.selects[2],
                           completion_rate |-> CompletionRate(work.selects[1], work.selects[2]),
                           recent_activities |-> RecentActivities(user_id)])
            /\ sessions' = [sessions EXCEPT ![s] = NoSession]
  /\ UNCHANGED <<variant, memVars, users, sqlVars, lessons, challenges,
                 orm_progress, orm_submissions, registered>>

\* lesson and article ids of the progress requests: the ids of the reference
\* data and one that names no lesson or article
StatsLessonIds == {<<"1">>, <<"2">>, <<"3">>, <<"4">>, <<"9">>}
StatsArticleIds == {1, 2, 3, 9}

\* the start of Init with the clock set back, which gives a run ExtraSteps
\* more requests
InitStats ==
  /\ InitStores
  /\ variant \in {"mem", "sql"}
  /\ now = -ExtraSteps

StatsNext ==
  \/ \E l \in StatsLessonIds, c \in BOOLEAN : SaveProgressPut("r1", <<"a">>, l, c, "t1")
  \/ SaveProgressReturn("r1")
  \/ MemGetStatsBegin("r1", <<"a">>)
  \/ MemGetStatsIterate("r1")
  \/ SqlRegister("r1", "alice", "a@x", "pw1")
  \/ SeedCheck("r1")
  \/ SeedInsert("r1")
  \/ \E a \in StatsArticleIds, e \in SameDay : update_progress("r1", 1, a, TRUE, 100, e)
  \/ \E u \in UserIds : SqlGetStatsBegin("r1", u)
  \/ SqlGetStatsSelect("r1")

SpecStats == InitStats /\ [][StatsNext]_vars

\* ---- requests that overlap on two workers
OverlapNext ==
  \/ \E s \in SessionIds : SeedCheck(s)
  \/ \E s \in SessionIds : SeedInsert(s)
  \/ \E s \in SessionIds, e \in Emails : OrmRegisterQuery(s, "alice", e, "pw1")
  \/ \E s \in SessionIds : OrmRegisterCommit(s)
  \/ \E s \in SessionIds : SqlRegister(s, "alice", "a@x", "pw1")
  \/ \E s \in SessionIds, a \in ArticleIds, e \in SameDay :
        update_progress(s, 1, a, TRUE, 100, e)
  \/ \E s \in SessionIds : AnalyzeFeatures(s, 1)
  \/ \E s \in SessionIds : AnalyzeRecentScores(s)
  \/ \E s \in SessionIds : SqlGetStatsBegin(s, 1)
  \/ \E s \in SessionIds : SqlGetStatsSelect(s)
  \/ \E s \in SessionIds, u \in MemUserIds, l \in MemLessonIds, c \in BOOLEAN :
        SaveProgressPut(s, u, l, c, "t1")
  \/ \E s \in SessionIds : SaveProgressReturn(s)
  \/ \E s \in SessionIds : MemGetStatsBegin(s, <<"a">>)
  \/ \E s \in SessionIds : MemGetStatsIterate(s)

\* the stores at the start with the clock set back by one request: a get_stats
\* that overlaps an update needs a registered user and the seeded articles
SpecOverlap == (InitStores /\ now = -1) /\ [][OverlapNext]_vars

\* ================================================================= claims
\* the usernames and the records of the stored users of the running revision
StoredUsernames ==
  IF variant = "mem" THEN DOMAIN users_db ELSE {users[i].username : i \in DOMAIN users}

StoredUsers ==
  IF variant = "mem" THEN {users_db[k] : k \in DOMAIN users_db} ELSE Range(users)

\* C1: a register call with the username of a registered user answers 400 and
\* leaves every stored user record (email, credential, creation time) as it was.
C1_DuplicateUsernameConflict ==
  [][ (resp'.op = "register" /\ now' # now /\ resp'.args.username \in StoredUsernames)
        => /\ resp'.status = 400
           /\ users_db' = users_db
           /\ users' = users ]_vars

\* a duplicate registration with another email and password was refused
C1_Witness ==
  /\ resp.op = "register"
  /\ resp.status = 400
  /\ \E u \in StoredUsers :
       /\ u.username = resp.args.username
       /\ u.email # resp.args.email
       /\ <<resp.args.username, resp.args.password>> \notin registered

\* C2: no two stored users share a username and no two share an email.
\* A register call that succeeded did not take an email another user holds.
C2_UniqueUsernameAndEmail ==
  /\ \A a, b \in StoredUsers :
       a # b => a.username # b.username /\ a.email # b.email
  /\ (resp.op = "register" /\ resp.status = 200)
       => \A u \in StoredUsers :
            u.email = resp.args.email => u.username = resp.args.username

\* C3: login answers 200 exactly when that username was registered with exactly
\* that password, 401 otherwise, and never changes the user store.
C3_LoginIffRegistered ==
  [][ (resp'.op = "login" /\ now' # now)
        => /\ resp'.status \in {200, 401}
           /\ resp'.status = 200
                <=> <<resp'.args.username, resp'.args.password>> \in registered
           /\ users_db' = users_db
           /\ users' = users ]_vars

\* a wrong password for an existing username was refused
C3_Witness ==
  /\ resp.op = "login"
  /\ resp.status = 401
  /\ resp.args.username \in StoredUsernames

\* equality of two strings ignoring letter case, character by character
LowerChar(c) ==
  CASE c = "A" -> "a" [] c = "B" -> "b" [] c = "C" -> "c" [] c = "D" -> "d"
    [] OTHER -> c

SameIgnoringCase(a, b) ==
  /\ Len(a) = Len(b)
  /\ \A i \in 1..Len(a) : LowerChar(a[i]) = LowerChar(b[i])

\* C4: submit_quiz on an existing quiz: an answer equal to the stored one
\* ignoring case gives correct, the quiz's points, no answer revealed, and adds
\* the points once to the named user only; any other answer gives incorrect,
\* zero points, the stored answer, and changes no user's total_points.
C4_QuizScoring ==
  [][ (/\ resp'.op = "submit_quiz"
       /\ now' # now
       /\ \E q \in Range(quizzes) : q.id = resp'.args.quiz_id)
        => LET q == CHOOSE q \in Range(quizzes) : q.id = resp'.args.quiz_id
               body == resp'.body IN
           /\ resp'.status = 200
           /\ IF SameIgnoringCase(resp'.args.answer, q.correct_answer)
              THEN /\ body.correct = TRUE
                   /\ body.points_earned = q.points
                   /\ body.correct_answer = None
                   /\ DOMAIN users' = DOMAIN users
                   /\ \A i \in DOMAIN users :
                        users'[i] = [users[i] EXCEPT !.total_points =
                                       IF users[i].id = resp'.args.user_id
                                       THEN @ + q.points ELSE @]
              ELSE /\ body.correct = FALSE
                   /\ body.points_earned = 0
                   /\ body.correct_answer = q.correct_answer
                   /\ users' = users ]_vars

\* a lower-case answer to an upper-case key earned the named user the points
C4_Witness ==
  /\ resp.op = "submit_quiz"
  /\ resp.status = 200
  /\ resp.body.correct
  /\ \E q \in Range(quizzes) :
       q.id = resp.args.quiz_id /\ q.correct_answer # resp.args.answer
  /\ \E u \in Range(users) : u.id = resp.args.user_id /\ u.total_points = 10

\* C5: a submission passing all test cases sets completed of its progress row,
\* and a completed row stays completed after every later submission.
C5_CompletedSticks ==
  [][ /\ \A i \in DOMAIN orm_progress :
           orm_progress[i].completed
             => i \in DOMAIN orm_progress' /\ orm_progress'[i].completed
      /\ (/\ resp'.op = "submit_challenge"
          /\ now' # now
          /\ resp'.status = 200
          /\ resp'.body.passed_tests = resp'.body.total_tests)
           => \E r \in Range(orm_progress') :
                /\ r.user_id = resp'.body.user_id
                /\ r.challenge_id = resp'.body.challenge_id
                /\ r.completed ]_vars

\* a completed row took a later submission that failed a test
C5_Witness ==
  /\ resp.op = "submit_challenge"
  /\ resp.status = 200
  /\ resp.body.passed_tests < resp.body.total_tests
  /\ \E r \in Range(orm_progress) :
       /\ r.user_id = resp.body.user_id
       /\ r.challenge_id = resp.body.challenge_id
       /\ r.completed
       /\ r.attempts = 2

\* C6: through POST /api/progress, a stored completed flag that is true is not
\* made false by a later update of the same (user, item) pair.
C6_CompletedNeverReverts ==
  [][ /\ \A i \in DOMAIN user_progress :
           user_progress[i].completed = 1 => user_progress'[i].completed = 1
      /\ \A k \in DOMAIN progress_db :
           (/\ progress_db[k].completed
            /\ progress_db'[k].user_id = progress_db[k].user_id
            /\ progress_db'[k].lesson_id = progress_db[k].lesson_id)
             => progress_db'[k].completed ]_vars

\* the scores of the stored submissions of one (user, challenge) pair
SubmissionScores(user_id, challenge_id) ==
  { orm_submissions[i].score : i \in
      { j \in DOMAIN orm_submissions :
          /\ orm_submissions[j].user_id = user_id
          /\ orm_submissions[j].challenge_id = challenge_id } }

\* C7: the best_score of every progress row is the maximum score over the
\* submissions of its (user, challenge) pair, and every pair with a submission
\* has a progress row.
C7_BestScoreIsMax ==
  /\ \A r \in Range(orm_progress) :
       LET scores == SubmissionScores(r.user_id, r.challenge_id) IN
       /\ r.best_score \in scores
       /\ \A x \in scores : x <= r.best_score
  /\ \A sub \in Range(orm_submissions) :
       \E r \in Range(orm_progress) :
         r.user_id = sub.user_id /\ r.challenge_id = sub.challenge_id

\* a second submission scored below the best one
C7_Witness ==
  /\ resp.op = "submit_challenge"
  /\ resp.status = 200
  /\ \E r \in Range(orm_progress) :
       /\ r.user_id = resp.body.user_id
       /\ r.challenge_id = resp.body.challenge_id
       /\ r.attempts = 2
       /\ 0 < resp.body.score
       /\ resp.body.score < r.best_score

\* C8 as stated: there is at most one progress row per (user, content item)
\* pair in every reachable state of the three revisions, and a submission for
\* a pair creates the pair's row or updates that same row, also when two
\* requests for one pair, both started while no row exists, interleave between
\* the existence check and the insert: each submit_challenge request that
\* reaches its db.commit() is answered 200 and leaves its attempts and
\* last_submitted in the pair's one row, each update_progress leaves its
\* completed and score in the pair's one row, and each save_progress leaves
\* its completed in the pair's one entry.
C8_OneRowPerPair ==
  [][ /\ \A i, j \in DOMAIN orm_progress' :
           (/\ orm_progress'[i].user_id = orm_progress'[j].user_id
            /\ orm_progress'[i].challenge_id = orm_progress'[j].challenge_id) => i = j
      /\ \A i, j \in DOMAIN user_progress' :
           (/\ user_progress'[i].user_id = user_progress'[j].user_id
            /\ user_progress'[i].article_id = user_progress'[j].article_id) => i = j
      /\ \A k, l \in DOMAIN progress_db' :
           (/\ progress_db'[k].user_id = progress_db'[l].user_id
            /\ progress_db'[k].lesson_id = progress_db'[l].lesson_id) => k = l
      /\ \A s \in SessionIds :
           (/\ variant = "orm"
            /\ sessions[s] # NoSession
            /\ sessions[s].op = "submit_challenge"
            /\ sessions'[s] = NoSession)
             => LET rows == ProgressQuery(orm_progress', sessions[s].progress.user_id,
                                          sessions[s].progress.challenge_id) IN
                /\ resp'.status = 200
                /\ Len(rows) = 1
                /\ rows[1].attempts = sessions[s].progress.attempts
                /\ rows[1].last_submitted = sessions[s].progress.last_submitted
      /\ (now' # now /\ resp'.op = "update_progress")
           => \E i \in DOMAIN user_progress' :
                /\ user_progress'[i].user_id = resp'.args.user_id
                /\ user_progress'[i].article_id = resp'.args.article_id
                /\ user_progress'[i].completed = SqlBool(resp'.args.completed)
                /\ user_progress'[i].score = resp'.args.score
      /\ \A s \in SessionIds :
           (/\ sessions[s] = NoSession
            /\ sessions'[s] # NoSession
            /\ sessions'[s].op = "save_progress")
             => \E k \in DOMAIN progress_db' :
                  /\ progress_db'[k].user_id = sessions'[s].args.user_id
                  /\ progress_db'[k].lesson_id = sessions'[s].args.lesson_id
                  /\ progress_db'[k].completed = sessions'[s].args.completed ]_vars

\* the order key of a listed item
OrderKey(item) == IF "order" \in DOMAIN item THEN item.order ELSE item.order_num

\* C9: every listing of lessons or courses is in ascending order of the order key.
C9_ListingsAscending ==
  resp.op \in {"get_lessons", "get_courses"}
    => \A i, j \in DOMAIN resp.body :
         i < j => OrderKey(resp.body[i]) <= OrderKey(resp.body[j])

\* C10: after every seed_data call the store holds exactly the 5 seeded courses,
\* 3 seeded articles and 4 seeded quizzes; a call that finds data inserts
\* nothing and reports that data already exists.
C10_SeedIdempotent ==
  [][ (resp'.op = "seed_data" /\ now' # now)
        => /\ Len(courses') = 5 /\ courses' = SeedCourses
           /\ Len(articles') = 3 /\ articles' = SeedArticles
           /\ Len(quizzes') = 4 /\ quizzes' = SeedQuizzes
           /\ courses # << >>
                => /\ resp'.body.message = "Data already exists"
                   /\ UNCHANGED <<courses, articles, quizzes>> ]_vars

\* a second seed_data call found the data of the first
C10_Witness ==
  /\ resp.op = "seed_data"
  /\ resp.body.message = "Data already exists"
  /\ now >= 2
  /\ Len(courses) = 5

\* C11: predict_difficulty computes skill = 0.25*engagement + 0.50*performance
\* + 0.15*completion_rate + 0.10*consistency and d = |level constant - skill|
\* (beginner 0.3, intermediate 0.6, advanced 0.9), all in double arithmetic, and
\* labels d < 0.3 Easy, 0.3 <= d < 0.6 Moderate, d >= 0.6 Challenging, for
\* every feature vector (the returned user_skill_level is that skill times 100
\* to within a hundredth); for active_days = 30, avg_score = 100, completed =
\* attempts the skill is exactly 1.0 and the label against an advanced lesson
\* is Easy.
C11_PredictDifficulty ==
  LET Constant(level) == IF level = "beginner" THEN FlQuot(3, 10)
                         ELSE IF level = "intermediate" THEN FlQuot(6, 10)
                         ELSE FlQuot(9, 10)
      Skill(f) == FlAdd(FlAdd(FlAdd(FlMul(FlQuot(25, 100), f.engagement_score),
                                    FlMul(FlQuot(50, 100), f.performance_score)),
                              FlMul(FlQuot(15, 100), f.completion_rate)),
                        FlMul(FlQuot(10, 100), f.consistency_score))
      Labelled(raw, level, label, skill, below3, below6) ==
        /\ level \in {"beginner", "intermediate", "advanced"} =>
             /\ (label = "Easy") = below3
             /\ (label = "Moderate") = (~below3 /\ below6)
             /\ (label = "Challenging") = ~below6
             /\ FlLess(FlAbs(FlSub(resp.body.user_skill_level, FlMul(skill, FlFromInt(100)))),
                       FlQuot(1, 100))
        /\ (raw.active_days = 30 /\ raw.avg_score = FlFromInt(100)
              /\ raw.total_attempts > 0 /\ raw.completed_count = raw.total_attempts) =>
             /\ skill = FlFromInt(1)
             /\ resp.body.user_skill_level = FlFromInt(100)
             /\ level = "advanced" => label = "Easy"
      Distance(skill, d) ==
        Labelled(resp.args.features, resp.args.lesson_level, resp.body.predicted_difficulty,
                 skill, FlLess(d, FlQuot(3, 10)), FlLess(d, FlQuot(6, 10)))
      Checked(skill) ==
        Distance(skill, FlAbs(FlSub(Constant(resp.args.lesson_level), skill))) IN
  (resp.op = "predict_difficulty" /\ resp.status = 200) =>
    Checked(Skill(resp.args.user_features))

C11_Witness ==
  /\ resp.op = "predict_difficulty"
  /\ resp.status = 200
  /\ resp.args.features.active_days = 30
  /\ resp.args.features.avg_score = FlFromInt(100)
  /\ resp.args.features.completed_count = resp.args.features.total_attempts
  /\ resp.args.lesson_level = "advanced"
  /\ resp.body.predicted_difficulty = "Easy"

\* C12: whatever rows update_progress has written (any integer score, any
\* completed flag), each of the four scores of preprocess_user_data
\* (engagement_score, performance_score, completion_rate, consistency_score)
\* lies in [0, 1].
C12_ScoresInUnitInterval ==
  (resp.op = "analyze_user_ml" /\ resp.status = 200) =>
    LET f == resp.body.preprocessed_features IN
    \A score \in {f.engagement_score, f.performance_score,
                  f.completion_rate, f.consistency_score} :
      ~FlLess(score, FlZero) /\ ~FlLess(FlFromInt(1), score)

\* the token is present and decodes to the identifier of a stored user
TokenNamesUser(token) ==
  /\ token # NoToken
  /\ token.key = SECRET_KEY
  /\ IsIntStr(token.sub)
  /\ \E i \in DOMAIN users : users[i].id = IntOfStr(token.sub)

\* C13: in the ORM revision submit_challenge, get_user_progress and
\* get_user_stats called with no token, or with a token that does not decode
\* to the identifier of an existing user, answer 401 and leave every submission
\* record and every progress row unchanged (for submit_challenge also when the
\* challenge does not exist: 401, not 404).
C13_InvalidTokenUnauthorized ==
  [][ (/\ now' # now
       /\ resp'.op \in {"submit_challenge", "get_user_progress", "get_user_stats"}
       /\ ~TokenNamesUser(resp'.args.token))
        => /\ resp'.status = 401
           /\ orm_submissions' = orm_submissions
           /\ orm_progress' = orm_progress ]_vars

\* C14 as stated: a submission that names a challenge id or a quiz id that is
\* not stored is answered 404 and changes nothing: no submission record is
\* added, no progress row is created or updated, no user's total_points
\* changes.
C14_NotFoundAnswers404 ==
  [][ (/\ now' # now
       /\ \/ /\ resp'.op = "submit_challenge"
             /\ \A i \in DOMAIN challenges : challenges[i].id # resp'.args.challenge_id
          \/ /\ resp'.op = "submit_quiz"
             /\ \A i \in DOMAIN quizzes : quizzes[i].id # resp'.args.quiz_id)
        => /\ resp'.status = 404
           /\ orm_submissions' = orm_submissions
           /\ orm_progress' = orm_progress
           /\ user_progress' = user_progress
           /\ users' = users ]_vars

\* C14 amended: a quiz submission that names a quiz id that is not stored is
\* answered 404; a challenge submission that names a challenge id that is not
\* stored is answered 404 when its token names a stored user, and otherwise by
\* the token check, which comes first: 401 for a missing, wrongly signed or
\* unknown-user token, 500 for a correctly signed token whose sub is missing
\* or not a number. In each of these cases nothing changes: no submission
\* record is added, no progress row is created or updated, no user's
\* total_points changes.
C14_NotFoundChangesNothing ==
  [][ (/\ now' # now
       /\ \/ /\ resp'.op = "submit_challenge"
             /\ \A i \in DOMAIN challenges : challenges[i].id # resp'.args.challenge_id
          \/ /\ resp'.op = "submit_quiz"
             /\ \A i \in DOMAIN quizzes : quizzes[i].id # resp'.args.quiz_id)
        => /\ resp'.status =
                IF resp'.op = "submit_quiz" \/ TokenNamesUser(resp'.args.token) THEN 404
                ELSE IF /\ resp'.args.token # NoToken
                        /\ resp'.args.token.key = SECRET_KEY
                        /\ ~IsIntStr(resp'.args.token.sub) THEN 500
                ELSE 401
           /\ orm_submissions' = orm_submissions
           /\ orm_progress' = orm_progress
           /\ user_progress' = user_progress
           /\ users' = users ]_vars

\* a stored user's submission for the unknown challenge 9, answered 404 with
\* the earlier submission record and progress row still in place
C14_Witness ==
  /\ resp.op = "submit_challenge"
  /\ resp.status = 404
  /\ resp.args.challenge_id = 9
  /\ TokenNamesUser(resp.args.token)
  /\ Len(orm_submissions) = 1
  /\ Len(orm_progress) = 1

\* C15: a challenge submission whose code is the empty string, and a quiz
\* submission whose answer is the empty string, is answered 400: no submission
\* record is persisted, no progress row's attempts or best_score changes, no
\* points are awarded. (Stated for calls that are valid otherwise: the token
\* names a user and the challenge or quiz exists.)
C15_EmptyBodyRejected ==
  [][ (/\ now' # now
       /\ \/ /\ resp'.op = "submit_challenge"
             /\ resp'.args.code = ""
             /\ TokenNamesUser(resp'.args.token)
             /\ \E i \in DOMAIN challenges : challenges[i].id = resp'.args.challenge_id
          \/ /\ resp'.op = "submit_quiz"
             /\ resp'.args.answer = << >>
             /\ \E i \in DOMAIN quizzes : quizzes[i].id = resp'.args.quiz_id)
        => /\ resp'.status = 400
           /\ orm_submissions' = orm_submissions
           /\ orm_progress' = orm_progress
           /\ users' = users ]_vars

\* the step is a crash that cuts request s short after db.commit() has sent
\* the INSERT of its submission record and before the progress row's statement
CrashAfterInsert(s) ==
  /\ sessions[s] # NoSession
  /\ "flushed_at" \in DOMAIN sessions[s]
  /\ sessions'[s] = NoSession
  /\ now' = now

C17_RegisterRace ==
  [][ \A s \in SessionIds :
        (/\ variant = "mem"
         /\ sessions[s] # NoSession
         /\ sessions'[s] = NoSession
         /\ MemUsernameTaken(users_db, sessions[s].args.username))
          => /\ resp'.status = 200
             /\ resp'.args = sessions[s].args
             /\ users_db'[sessions[s].args.username].email = sessions[s].args.email
             /\ users_db'[sessions[s].args.username].password = sessions[s].args.password ]_vars

\* both calls for one username returned success, and the stored record is the
\* later caller's, not the earlier caller's
C17_Witness ==
  /\ variant = "mem"
  /\ resp.op = "register"
  /\ resp.status = 200
  /\ {<<resp.args.username, "pw1">>, <<resp.args.username, "pw2">>} \subseteq registered
  /\ users_db[resp.args.username].password = resp.args.password
  /\ Cardinality(DOMAIN users_db) = 1

\* the submission records stored for one (user, challenge) pair
SubmissionsOf(submissions, user_id, challenge_id) ==
  SelectSeq(submissions, LAMBDA r : r.user_id = user_id /\ r.challenge_id = challenge_id)

\* attempts of the pair's progress row, 0 while there is no row
AttemptsOf(progress, user_id, challenge_id) ==
  IF ProgressQuery(progress, user_id, challenge_id) = << >> THEN 0
  ELSE ProgressQuery(progress, user_id, challenge_id)[1].attempts

\* C18: every successful submit_challenge call appends exactly one submission
\* record, leaves every earlier record as it was and raises attempts of the
\* (user, challenge) progress row by exactly 1; hence, with requests handled
\* one after the other, attempts of each progress row equals the number of
\* submission records stored for its pair.
C18_OneRecordOneAttempt ==
  [][ /\ (now' # now /\ resp'.op = "submit_challenge" /\ resp'.status = 200)
         => /\ Len(orm_submissions') = Len(orm_submissions) + 1
            /\ SubSeq(orm_submissions', 1, Len(orm_submissions)) = orm_submissions
            /\ AttemptsOf(orm_progress', resp'.body.user_id, resp'.body.challenge_id)
                 = AttemptsOf(orm_progress, resp'.body.user_id, resp'.body.challenge_id) + 1
      /\ \A i \in DOMAIN orm_progress' :
           orm_progress'[i].attempts
             = Len(SubmissionsOf(orm_submissions', orm_progress'[i].user_id,
                                 orm_progress'[i].challenge_id)) ]_vars

\* a second successful submission of one pair: two records, attempts 2
C18_Witness ==
  /\ resp.op = "submit_challenge"
  /\ resp.status = 200
  /\ Len(SubmissionsOf(orm_submissions, resp.body.user_id, resp.body.challenge_id)) = 2
  /\ AttemptsOf(orm_progress, resp.body.user_id, resp.body.challenge_id) = 2
  /\ orm_submissions[1].id # orm_submissions[2].id

\* C19 as stated: in the in-memory revision save_progress for one
\* (user_id, lesson_id) pair leaves the stored entry of every other pair in
\* place and unchanged, for all identifiers, also those that contain "_".
C19_DistinctPairsDistinctEntries ==
  [][ \A s \in SessionIds :
        (/\ sessions[s] = NoSession
         /\ sessions'[s] # NoSession
         /\ sessions'[s].op = "save_progress")
          => \A k \in DOMAIN progress_db :
               (<<progress_db[k].user_id, progress_db[k].lesson_id>>
                  # <<sessions'[s].args.user_id, sessions'[s].args.lesson_id>>)
                 => (k \in DOMAIN progress_db' /\ progress_db'[k] = progress_db[k]) ]_vars

\* C20 as stated: after any sequence of progress updates the completion_rate
\* that get_stats returns lies between 0 and 100 inclusive, also when progress
\* was saved for ids that name no lesson or article.
C20_CompletionRateInRange ==
  LET InRange(rate) == ~FlLess(rate, FlZero) /\ ~FlLess(FlFromInt(100), rate) IN
  (resp.op = "get_stats" /\ resp.status = 200) => InRange(resp.body.completion_rate)

\* C21 as stated: whenever submit_quiz returns points_earned = p > 0 for a call
\* with user_id u, a stored user with id u exists and its total_points was
\* raised by p, also when u matches no registered user.
C21_PointsEarnedAreStored ==
  [][ (/\ now' # now
       /\ resp'.op = "submit_quiz"
       /\ resp'.status = 200
       /\ resp'.body.points_earned > 0)
        => \E i \in DOMAIN users :
             /\ users[i].id = resp'.args.user_id
             /\ i \in DOMAIN users'
             /\ users'[i].id = users[i].id
             /\ users'[i].total_points = users[i].total_points + resp'.body.points_earned ]_vars

====
